---- MODULE Spec2Model ----
(***************************************************************************)
(* A model of go-dmr's data.go: the block codec (ParseDataBlock,          *)
(* DataBlock.Bytes), the fragmenter (DataFragment.DataBlocks) and the      *)
(* reassembler (CombineDataBlocks), with the CRC-9 and CRC-32 accumulators *)
(* they call.                                                              *)
(*                                                                         *)
(* Bytes are integers 0..255 and byte slices are sequences.  A uint32 is   *)
(* the pair <<high 16 bits, low 16 bits>>, so that no intermediate value   *)
(* leaves the range of TLC's integers; a uint16 and a uint8 are integers   *)
(* reduced modulo 2^16 and 2^8 where the code can overflow them.           *)
(***************************************************************************)
EXTENDS Integers, Sequences, FiniteSets, TLC

VARIABLES
  mode,     \* which API the behaviour exercises: "codec", "fragment", "combine"
  blk,      \* codec: the DataBlock handed to Bytes (db)
  dtype,    \* the dataType argument of the calls
  conf,     \* the confirmed / confirm argument of the calls
  wire,     \* codec: the byte slice handed to ParseDataBlock: [arr, len], cap = Len(arr)
  pres,     \* codec: what ParseDataBlock did: [kind, db, crc]
  df,       \* fragment: the DataFragment DataBlocks is called on
  calls,    \* fragment: how many times DataBlocks ran on df
  prev,     \* fragment: df and the blocks as the previous DataBlocks call left them
  blocks,   \* fragment/combine: the blocks handed to CombineDataBlocks
  sent,     \* fragment: the blocks as DataBlocks returned them (before any tampering)
  cres,     \* fragment/combine: what CombineDataBlocks did: [kind, f, crc]
  fault     \* fragment: whether the last DataBlocks call aborted on a slice bound

vars == <<mode, blk, dtype, conf, wire, pres, df, calls, prev, blocks, sent, cres, fault>>


----------------------------------------------------------------------------
(* Integer helpers for Go's unsigned arithmetic.                           *)

Min(a, b) == IF a < b THEN a ELSE b

RECURSIVE XorBits(_, _)
XorBits(a, b) ==
  IF a = 0 THEN b
  ELSE IF b = 0 THEN a
  ELSE (((a % 2) + (b % 2)) % 2) + 2 * XorBits(a \div 2, b \div 2)

\* a ^ b on bytes, tabulated once.
XorByte == [a \in 0..255 |-> [b \in 0..255 |-> XorBits(a, b)]]

\* a ^ b on values below 2^16.
Xor(a, b) == XorByte[a \div 256][b \div 256] * 256 + XorByte[a % 256][b % 256]

\* n zero bytes: make([]byte, n).
Zeros(n) == [i \in 1..n |-> 0] \o <<>>

\* copy(dst[off:], src): copies min(len(dst)-off, len(src)) bytes.
Copy(dst, off, src) ==
  LET n == Min(Len(dst) - off, Len(src))
  IN SubSeq(dst, 1, off) \o SubSeq(src, 1, n) \o SubSeq(dst, off + n + 1, Len(dst))

\* dst with dst[idx] = v (idx counted from 0, as in the code).
SetAt(dst, idx, v) == SubSeq(dst, 1, idx) \o <<v>> \o SubSeq(dst, idx + 2, Len(dst))

----------------------------------------------------------------------------
(* The checksum engine.  crc9, crc9end, crc32 and crc32end are called by   *)
(* data.go and defined in another file of the package; they follow the     *)
(* specification's section 4.1: a register fed one bit at a time, most     *)
(* significant bit first, with                                             *)
(*   newBit = ((crc >> (width-1)) ^ inputBit) & 1                          *)
(*   crc    = (crc << 1) ^ (newBit ? polynomialTap : 0)                    *)
(* masked to the register width after each step.                           *)

\* x^9 + x^6 + x^4 + x^3 + 1, the air interface's CRC-9 generator.
CRC9Poly == 89

\* The IEEE 802.3 generator, 0x04C11DB7.
CRC32Poly == 79764919

crc9Bit(crc, bit) ==
  LET sh == (crc * 2) % 512
  IN IF (crc \div 256) # bit THEN Xor(sh, CRC9Poly) ELSE sh

\* crc9(&crc, b, bits): the low `bits` bits of b, most significant first.
RECURSIVE crc9(_, _, _)
crc9(crc, b, bits) ==
  IF bits = 0 THEN crc
  ELSE LET nc == crc9Bit(crc, (b \div (2 ^ (bits - 1))) % 2)
       IN IF nc >= 0 THEN crc9(nc, b, bits - 1) ELSE nc

\* crc9end(&crc, bits): `bits` zero bits flushed through the register.
crc9end(crc, bits) == crc9(crc, 0, bits)

crc32Bit(crc, bit) ==
  LET sh == << (crc[1] % 32768) * 2 + (crc[2] \div 32768), (crc[2] % 32768) * 2 >>
  IN IF (crc[1] \div 32768) # bit
     THEN << Xor(sh[1], CRC32Poly \div 65536), Xor(sh[2], CRC32Poly % 65536) >>
     ELSE sh

RECURSIVE crc32Bits(_, _, _)
crc32Bits(crc, b, bits) ==
  IF bits = 0 THEN crc
  ELSE LET nc == crc32Bit(crc, (b \div (2 ^ (bits - 1))) % 2)
       IN IF nc[1] >= 0 THEN crc32Bits(nc, b, bits - 1) ELSE nc

\* crc32(&crc, b), one bit at a time.
crc32Serial(crc, b) == crc32Bits(crc, b, 8)

(* The recurrence is linear over GF(2), and an input bit enters only at    *)
(* the top of the register, so feeding a byte equals flushing eight zero   *)
(* bits through the register with the byte XORed into its top eight bits.  *)
(* The flush of every top byte is tabulated from the recurrence; the       *)
(* invariants TablesAgree9 and TablesAgree32 compare the two forms.        *)

crc9Flush8 == [c \in 0..511 |-> crc9end(c, 8)]

crc9Byte(crc, b) == crc9Flush8[Xor(crc, b * 2)]

crc32Flush8 == [t \in 0..255 |-> crc32Serial(<<t * 256, 0>>, 0)]

\* crc32(&crc, b)
crc32(crc, b) ==
  LET t == crc32Flush8[XorByte[crc[1] \div 256][b]]
  IN << Xor((crc[1] % 256) * 256 + (crc[2] \div 256), t[1]),
        Xor((crc[2] % 256) * 256, t[2]) >>

\* crc32end(&crc): 32 zero bits flushed through the register.
crc32end(crc) == crc32(crc32(crc32(crc32(crc, 0), 0), 0), 0)

----------------------------------------------------------------------------
(* data.go                                                                 *)

MaxPacketFragmentSize == 1500

DataTypes == {"Rate12Data", "Rate34Data", "Data"}

\* crc9Masks[dataType]; a key the map lacks reads as 0.
crc9Masks(dataType) ==
  CASE dataType = "Rate12Data" -> 240
    [] dataType = "Rate34Data" -> 511
    [] OTHER -> 0

\* dataBlockLengths[dataType]; a key the map lacks reads as 0.
dataBlockLengths(dataType) ==
  CASE dataType = "Rate12Data" -> 12
    [] dataType = "Rate34Data" -> 18
    [] dataType = "Data" -> 22
    [] OTHER -> 0

RECURSIVE crc9Data(_, _, _)
crc9Data(crc, data, i) ==
  IF i > Len(data) THEN crc
  ELSE LET nc == crc9Byte(crc, data[i])
       IN IF nc >= 0 THEN crc9Data(nc, data, i + 1) ELSE nc

calculateCRC9(serial, data, dataType) ==
  LET fed == crc9(crc9Data(0, data, 1), serial, 7)
      flushed == crc9end(fed, 8)
      inverted == 511 - flushed
  IN Xor(inverted, crc9Masks(dataType))

userDataLength(dataType, confirmed) ==
  LET size == dataBlockLengths(dataType)
  IN IF dataType \in DataTypes /\ confirmed THEN size - 2 ELSE size

DataBlock(serial, crc, ok, data, length) ==
  [Serial |-> serial, CRC |-> crc, OK |-> ok, Data |-> data, Length |-> length]

NoBlock == [Serial |-> 0, CRC |-> 0, OK |-> FALSE, Data |-> <<>>, Length |-> 0]

\* What a call returned: kind is "ok" (nil error), "crc_error" (the CRC error
\* value) or "panic" (an index or slice bound out of range aborts the call);
\* db holds the returned *DataBlock, and is empty for nil; crc and stored are
\* the two values the error message prints.
ParseResult(kind, db, crc, stored) ==
  [kind |-> kind, db |-> db, crc |-> crc, stored |-> stored]

\* Mutant of ParseDataBlock: the checksum comparison is left out.
ParseDataBlockNoCheck(data, dataType, confirmed) ==
  LET length == userDataLength(dataType, confirmed) % 256
  IN IF confirmed
     THEN IF data.len < 2 \/ 2 + length > Len(data.arr)
          THEN ParseResult("panic", <<>>, 0, 0)
          ELSE LET serial == data.arr[1] \div 2
                   stored == (data.arr[1] % 2) * 256 + data.arr[2]
                   payload == SubSeq(data.arr, 3, 2 + length)
                   crc == calculateCRC9(serial, payload, dataType)
               IN ParseResult("ok",
                    <<DataBlock(serial, stored, TRUE, payload, length)>>, crc, stored)
     ELSE IF length > Len(data.arr)
          THEN ParseResult("panic", <<>>, 0, 0)
          ELSE ParseResult("ok",
                 <<DataBlock(0, 0, TRUE, SubSeq(data.arr, 1, length), length)>>, 0, 0)

\* ParseDataBlock(data, dataType, confirmed); data is the slice [arr, len]:
\* len(data) = data.len, cap(data) = Len(data.arr).
ParseDataBlock(data, dataType, confirmed) ==
  LET length == userDataLength(dataType, confirmed) % 256
  IN IF confirmed
     THEN IF data.len < 2 \/ 2 + length > Len(data.arr)
          THEN ParseResult("panic", <<>>, 0, 0)
          ELSE LET serial == data.arr[1] \div 2
                   stored == (data.arr[1] % 2) * 256 + data.arr[2]
                   payload == SubSeq(data.arr, 3, 2 + length)
                   crc == calculateCRC9(serial, payload, dataType)
               IN IF crc # stored
                  THEN ParseResult("crc_error", <<>>, crc, stored)
                  ELSE ParseResult("ok",
                         <<DataBlock(serial, stored, TRUE, payload, length)>>, crc, stored)
     ELSE IF length > Len(data.arr)
          THEN ParseResult("panic", <<>>, 0, 0)
          ELSE ParseResult("ok",
                 <<DataBlock(0, 0, TRUE, SubSeq(data.arr, 1, length), length)>>, 0, 0)

\* Mutant of Bytes: the serial is written without the shift past the CRC bit.
BytesNoShift(db, dataType, confirmed) ==
  LET data == Zeros(dataBlockLengths(dataType))
      crc == calculateCRC9(db.Serial, db.Data, dataType)
      b0 == XorByte[db.Serial % 256][(crc \div 256) % 2]
  IN IF confirmed
     THEN [data |-> Copy(SetAt(SetAt(data, 0, b0), 1, crc % 256), 2, db.Data),
           db |-> [db EXCEPT !.CRC = crc]]
     ELSE [data |-> Copy(data, 0, db.Data), db |-> db]

\* db.Bytes(dataType, confirmed): the wire bytes, and db as the call leaves it.
Bytes(db, dataType, confirmed) ==
  LET data == Zeros(dataBlockLengths(dataType))
      crc == calculateCRC9(db.Serial, db.Data, dataType)
      b0 == ((db.Serial * 2) % 256) + ((crc \div 256) % 2)
  IN IF confirmed
     THEN [data |-> Copy(SetAt(SetAt(data, 0, b0), 1, crc % 256), 2, db.Data),
           db |-> [db EXCEPT !.CRC = crc]]
     ELSE [data |-> Copy(data, 0, db.Data), db |-> db]

DataFragment(data, stored, needed, crc) ==
  [Data |-> data, Stored |-> stored, Needed |-> needed, CRC |-> crc]

\* data[i] when i < stored, else the zero the loop feeds instead (i from 0).
PadByte(data, stored, i) == IF i < stored THEN data[i + 1] ELSE 0

\* Iterations lo..hi-1 of the loop at data.go:132 (i = 2 * iteration).
RECURSIVE fragmentCRC(_, _, _, _, _)
fragmentCRC(crc, data, stored, lo, hi) ==
  IF lo >= hi THEN crc
  ELSE IF hi - lo = 1
  THEN crc32(crc32(crc, PadByte(data, stored, 2 * lo + 1)), PadByte(data, stored, 2 * lo))
  ELSE LET mid == (lo + hi) \div 2
           half == fragmentCRC(crc, data, stored, lo, mid)
       IN IF half[1] >= 0 THEN fragmentCRC(half, data, stored, mid, hi) ELSE half

\* The i-th pass (from 0) of the loop at data.go:150, on st = [blocks, stored, panic].
fillBlock(st, f, crc, needed, blockCap, dataType, i) ==
  LET length == blockCap % 256
      store == Min(length, f.Stored - st.stored)
      oob == st.stored + store > Len(f.Data) \/ store < 0
      filled == Copy(Zeros(length), 0, SubSeq(f.Data, st.stored + 1, st.stored + store))
      data == IF i = needed - 1
              THEN SetAt(SetAt(SetAt(SetAt(filled,
                     length - 1, crc[1] \div 256),
                     length - 2, crc[1] % 256),
                     length - 3, crc[2] \div 256),
                     length - 4, crc[2] % 256)
              ELSE filled
      serial == i % 128
  IN IF st.panic \/ oob THEN [st EXCEPT !.panic = TRUE]
     ELSE [blocks |-> Append(st.blocks,
                       DataBlock(serial, calculateCRC9(serial, data, dataType),
                                 FALSE, data, length)),
           stored |-> st.stored + store,
           panic |-> FALSE]

RECURSIVE fillBlocks(_, _, _, _, _, _, _, _)
fillBlocks(st, f, crc, needed, blockCap, dataType, lo, hi) ==
  IF lo >= hi THEN st
  ELSE IF hi - lo = 1 THEN fillBlock(st, f, crc, needed, blockCap, dataType, lo)
  ELSE LET mid == (lo + hi) \div 2
           half == fillBlocks(st, f, crc, needed, blockCap, dataType, lo, mid)
       IN IF half.stored >= 0
          THEN fillBlocks(half, f, crc, needed, blockCap, dataType, mid, hi)
          ELSE half

\* Mutant of clampStored: the length is not clamped.
clampStoredOff(n) == n

\* data.go:117-120
clampStored(n) == IF n > MaxPacketFragmentSize THEN MaxPacketFragmentSize ELSE n

\* Mutant of neededBlocks: no extra block when the room is under 4 bytes.
neededBlocksNoRoom(stored, blockCap) == (stored + blockCap - 1) \div blockCap

\* data.go:124-129
neededBlocks(stored, blockCap) ==
  LET needed == (stored + blockCap - 1) \div blockCap
  IN IF (needed * blockCap) - stored < 4 THEN needed + 1 ELSE needed

\* The CRC the loop at data.go:132-144 leaves in df.CRC, starting from crc.
accumulateCRC(crc, data, stored, limit) ==
  crc32end(fragmentCRC(crc, data, stored, 0, (limit + 1) \div 2))

\* df.DataBlocks(dataType, confirm): df as the call leaves it, the blocks,
\* and whether a slice bound went out of range.
DataBlocks(f, dataType, confirm) ==
  LET stored == clampStored(Len(f.Data))
      blockCap == userDataLength(dataType, confirm)
      needed == neededBlocks(stored, blockCap)
      crc == accumulateCRC(f.CRC, f.Data, stored, (needed * blockCap) - 4)
      after == DataFragment(f.Data, stored, needed, crc)
      st == fillBlocks([blocks |-> <<>>, stored |-> 0, panic |-> FALSE],
                       after, crc, needed, blockCap, dataType, 0, needed)
  IN [df |-> after, blocks |-> st.blocks, panic |-> st.panic]

\* Mutant of combineBlock: the last block's trailer is not counted in Stored.
combineBlockStripTrailer(st, block, i, n) ==
  LET length == block.Length
      fits == IF i < n - 1
              THEN st.Stored + length < Len(st.Data)
              ELSE st.Stored + length - 4 < Len(st.Data)
      at(k) == block.Data[((length + 256 - k) % 256) + 1]
      oob == (fits /\ length > Len(block.Data))
             \/ (i = n - 1 /\ \E k \in 1..4 : (length + 256 - k) % 256 >= Len(block.Data))
      copied == IF fits
                THEN [st EXCEPT !.Data = Copy(st.Data, st.Stored, SubSeq(block.Data, 1, length)),
                                !.Stored = st.Stored + (IF i < n - 1 THEN length ELSE length - 4)]
                ELSE st
  IN IF st.panic \/ length = 0 THEN st
     ELSE IF oob THEN [st EXCEPT !.panic = TRUE]
     ELSE IF i < n - 1 THEN copied
     ELSE [copied EXCEPT !.CRC = << at(1) * 256 + at(2), at(3) * 256 + at(4) >>]

\* One pass of the loop at data.go:188, on st = [Data, Stored, CRC, panic];
\* i counts from 0 and n = len(blocks).
combineBlock(st, block, i, n) ==
  LET length == block.Length
      fits == IF i < n - 1
              THEN st.Stored + length < Len(st.Data)
              ELSE st.Stored + length - 4 < Len(st.Data)
      at(k) == block.Data[((length + 256 - k) % 256) + 1]
      oob == (fits /\ length > Len(block.Data))
             \/ (i = n - 1 /\ \E k \in 1..4 : (length + 256 - k) % 256 >= Len(block.Data))
      copied == IF fits
                THEN [st EXCEPT !.Data = Copy(st.Data, st.Stored, SubSeq(block.Data, 1, length)),
                                !.Stored = st.Stored + length]
                ELSE st
  IN IF st.panic \/ length = 0 THEN st
     ELSE IF oob THEN [st EXCEPT !.panic = TRUE]
     ELSE IF i < n - 1 THEN copied
     ELSE [copied EXCEPT !.CRC = << at(1) * 256 + at(2), at(3) * 256 + at(4) >>]

RECURSIVE combineBlocks(_, _, _, _)
combineBlocks(st, bs, lo, hi) ==
  IF lo >= hi THEN st
  ELSE IF hi - lo = 1 THEN combineBlock(st, bs[lo + 1], lo, Len(bs))
  ELSE LET mid == (lo + hi) \div 2
           half == combineBlocks(st, bs, lo, mid)
       IN IF half.Stored >= 0 THEN combineBlocks(half, bs, mid, hi) ELSE half

\* Iterations lo..hi-1 of the loop at data.go:211 (i = 2 * iteration).
RECURSIVE combineCRC(_, _, _, _)
combineCRC(crc, data, lo, hi) ==
  IF lo >= hi THEN crc
  ELSE IF hi - lo = 1 THEN crc32(crc32(crc, data[2 * lo + 2]), data[2 * lo + 1])
  ELSE LET mid == (lo + hi) \div 2
           half == combineCRC(crc, data, lo, mid)
       IN IF half[1] >= 0 THEN combineCRC(half, data, mid, hi) ELSE half

\* What CombineDataBlocks returned: kind is "ok", "empty" (no data blocks),
\* "crc_error" or "panic"; f holds the returned *DataFragment, empty for nil.
CombineResult(kind, f, crc) == [kind |-> kind, f |-> f, crc |-> crc]

CombineDataBlocks(bs) ==
  IF Len(bs) = 0 THEN CombineResult("empty", <<>>, <<0, 0>>)
  ELSE LET st == combineBlocks([Data |-> Zeros(MaxPacketFragmentSize), Stored |-> 0,
                                CRC |-> <<0, 0>>, panic |-> FALSE], bs, 0, Len(bs))
           limit == st.Stored - 4
           crc == crc32end(combineCRC(<<0, 0>>, st.Data, 0,
                                      IF limit > 0 THEN (limit + 1) \div 2 ELSE 0))
       IN IF st.panic THEN CombineResult("panic", <<>>, <<0, 0>>)
          ELSE IF crc # st.CRC THEN CombineResult("crc_error", <<>>, crc)
          ELSE CombineResult("ok", <<DataFragment(st.Data, st.Stored, 0, st.CRC)>>, crc)

----------------------------------------------------------------------------
(* Inputs.                                                                 *)

\* Payload patterns 0..MaxPattern: all zero, a varied run, constant bytes.
MaxPattern == 1

PatByte(pat, i) ==
  CASE pat = 0 -> 0
    [] pat = 1 -> ((37 * i) + 11) % 256
    [] OTHER -> (168 + pat) % 256

Payload(len, pat) == [i \in 1..len |-> PatByte(pat, i)] \o <<>>

\* Serial numbers of a fragment's blocks.
Serials == 0..127

\* How far below the declared layout a wire buffer is cut from the front.
MaxShort == 2

NoWire == [arr |-> <<>>, len |-> 0, st |-> "unset"]
NoParse == ParseResult("none", <<>>, 0, 0)
NoFragment == DataFragment(<<>>, 0, 0, <<0, 0>>)
NoCombine == CombineResult("none", <<>>, <<0, 0>>)
NoPrev == [df |-> NoFragment, blocks |-> <<>>]

----------------------------------------------------------------------------
(* The block codec: a block is encoded, the wire bytes may be damaged or   *)
(* cut short on the way, and the result is parsed.                         *)

InitCodec ==
  /\ mode = "codec"
  /\ dtype \in DataTypes
  /\ conf \in BOOLEAN
  /\ \E serial \in Serials, pat \in 0..MaxPattern :
       blk = DataBlock(serial, 0, FALSE,
                       Payload(userDataLength(dtype, conf), pat),
                       userDataLength(dtype, conf))
  /\ wire = NoWire
  /\ pres = NoParse
  /\ df = NoFragment /\ calls = 0 /\ prev = NoPrev
  /\ blocks = <<>> /\ sent = <<>> /\ cres = NoCombine /\ fault = FALSE

BytesCall ==
  /\ mode = "codec" /\ wire.st = "unset"
  /\ LET r == Bytes(blk, dtype, conf)
     IN /\ wire' = [arr |-> r.data, len |-> Len(r.data), st |-> "encoded"]
        /\ blk' = r.db
  /\ UNCHANGED <<mode, dtype, conf, pres, df, calls, prev, blocks, sent, cres, fault>>

\* The channel changes one byte of the encoded block.
Corrupt ==
  /\ mode = "codec" /\ wire.st = "encoded" /\ pres.kind = "none"
  /\ \E pos \in 1..wire.len :
       wire' = [wire EXCEPT !.arr = SetAt(wire.arr, pos - 1, (wire.arr[pos] + 1) % 256),
                            !.st = "corrupted"]
  /\ UNCHANGED <<mode, blk, dtype, conf, pres, df, calls, prev, blocks, sent, cres, fault>>

\* The caller hands over a buffer shorter than the layout: either a shorter
\* slice of the same array (the capacity stays) or a shorter array.
Truncate ==
  /\ mode = "codec" /\ wire.st = "encoded" /\ pres.kind = "none"
  /\ \E n \in (0..MaxShort) \cup {wire.len - 1}, keepCap \in BOOLEAN :
       /\ n < wire.len
       /\ wire' = [arr |-> IF keepCap THEN wire.arr ELSE SubSeq(wire.arr, 1, n),
                   len |-> n, st |-> "short"]
  /\ UNCHANGED <<mode, blk, dtype, conf, pres, df, calls, prev, blocks, sent, cres, fault>>

ParseCall ==
  /\ mode = "codec" /\ wire.st # "unset" /\ pres.kind = "none"
  /\ pres' = ParseDataBlock(wire, dtype, conf)
  /\ UNCHANGED <<mode, blk, dtype, conf, wire, df, calls, prev, blocks, sent, cres, fault>>

NextCodec == BytesCall \/ Corrupt \/ Truncate \/ ParseCall

SpecCodec == InitCodec /\ [][NextCodec]_vars

----------------------------------------------------------------------------
(* The fragmenter and the reassembler: a fragment is split into blocks     *)
(* (once, or again on the same DataFragment), a byte of a block may change *)
(* on the way, and the blocks are combined.                                *)

\* Payload lengths: 0..MaxLen, and MaxPacketFragmentSize - MaxUnder ..
\* MaxPacketFragmentSize + MaxOver.
MaxLen == 23
MaxUnder == 1
MaxOver == 1

\* How often DataBlocks is called on one DataFragment.
MaxCalls == 2

FragLens ==
  (0..MaxLen) \cup ((MaxPacketFragmentSize - MaxUnder)..(MaxPacketFragmentSize + MaxOver))

InitFragment ==
  /\ mode = "fragment"
  /\ dtype \in DataTypes
  /\ conf \in BOOLEAN
  /\ \E len \in FragLens, pat \in 0..MaxPattern :
       df = DataFragment(Payload(len, pat), 0, 0, <<0, 0>>)
  /\ calls = 0 /\ prev = NoPrev
  /\ blocks = <<>> /\ sent = <<>> /\ cres = NoCombine /\ fault = FALSE
  /\ blk = NoBlock /\ wire = NoWire /\ pres = NoParse

DataBlocksCall ==
  /\ mode = "fragment" /\ calls < MaxCalls
  /\ cres.kind = "none" /\ blocks = sent /\ ~fault
  /\ LET r == DataBlocks(df, dtype, conf)
     IN /\ df' = r.df
        /\ sent' = r.blocks
        /\ blocks' = r.blocks
        /\ fault' = r.panic
  /\ prev' = [df |-> df, blocks |-> sent]
  /\ calls' = calls + 1
  /\ UNCHANGED <<mode, dtype, conf, cres, blk, wire, pres>>

\* The bytes of a block of the given length that the channel may change: the
\* first, the last before the trailer's place, and the trailer's first and last.
TamperBytes(length) == {0, length - 5, length - 4, length - 1}

\* The channel changes one payload byte of the first, the last or the last but
\* one block.
Tamper ==
  /\ mode = "fragment" /\ calls = 1 /\ ~fault
  /\ cres.kind = "none" /\ blocks = sent
  /\ \E i \in {1, Len(blocks) - 1, Len(blocks)} :
       /\ i >= 1
       /\ \E j \in TamperBytes(blocks[i].Length) :
            blocks' = [blocks EXCEPT ![i].Data =
                         SetAt(@, j, (blocks[i].Data[j + 1] + 1) % 256)]
  /\ UNCHANGED <<mode, dtype, conf, df, calls, prev, sent, cres, fault, blk, wire, pres>>

CombineCall ==
  /\ mode = "fragment" /\ calls >= 1 /\ ~fault
  /\ cres.kind = "none"
  /\ cres' = CombineDataBlocks(blocks)
  /\ UNCHANGED <<mode, dtype, conf, df, calls, prev, blocks, sent, fault, blk, wire, pres>>

NextFragment == DataBlocksCall \/ Tamper \/ CombineCall

Spec == InitFragment /\ [][NextFragment]_vars

----------------------------------------------------------------------------
(* The reassembler alone: CombineDataBlocks is handed blocks that did not  *)
(* come from DataBlocks, of any declared Length a uint8 holds.             *)

\* The most blocks in a sequence.
MaxBlocks == 7

\* Declared lengths: of the leading blocks, of the last block but one, and of
\* the last block.  Five blocks of 255 bytes leave 225 of the 1500.
HeadLengths == {0, 255}
PenultimateLengths == {0, 224, 225}
LastLengths == {0, 3, 4, 5, 228, 229, 255}

ReceivedBlock(length, pat) == DataBlock(0, 0, FALSE, Payload(length, pat), length)

Received(n, a, b, c, pat) ==
  [i \in 1..n |-> ReceivedBlock(IF i = n THEN c ELSE IF i = n - 1 THEN b ELSE a, pat)] \o <<>>

InitCombine ==
  /\ mode = "combine"
  /\ \E n \in 0..MaxBlocks, a \in HeadLengths, b \in PenultimateLengths,
        c \in LastLengths, pat \in 0..MaxPattern :
       blocks = Received(n, a, b, c, pat)
  /\ sent = <<>> /\ cres = NoCombine /\ fault = FALSE
  /\ df = NoFragment /\ calls = 0 /\ prev = NoPrev
  /\ dtype = "Data" /\ conf = FALSE
  /\ blk = NoBlock /\ wire = NoWire /\ pres = NoParse

CombineReceived ==
  /\ mode = "combine" /\ cres.kind = "none"
  /\ cres' = CombineDataBlocks(blocks)
  /\ UNCHANGED <<mode, dtype, conf, df, calls, prev, blocks, sent, fault, blk, wire, pres>>

NextCombine == CombineReceived

SpecCombine == InitCombine /\ [][NextCombine]_vars

\* C9: whenever CombineDataBlocks returns a fragment, its Stored is at most
\* 1500, the length of its Data buffer.
C9_StoredWithinBuffer ==
  (mode = "combine" /\ cres.kind = "ok")
    => (cres.f[1].Stored <= MaxPacketFragmentSize
        /\ cres.f[1].Stored <= Len(cres.f[1].Data))

\* What the bounds checks at data.go:193 and data.go:198 do guarantee.
StoredWithinBufferPlus3 ==
  (mode = "combine" /\ cres.kind = "ok")
    => (cres.f[1].Stored <= MaxPacketFragmentSize + 3
        /\ Len(cres.f[1].Data) = MaxPacketFragmentSize)

----------------------------------------------------------------------------
(* Properties of the fragmenter and the reassembler, checked under Spec.   *)

\* The block capacity the rate table gives: 12, 18 or 22 bytes, two fewer
\* when the block is confirmed.
TableCapacity(dataType, confirmed) ==
  (CASE dataType = "Rate12Data" -> 12
     [] dataType = "Rate34Data" -> 18
     [] dataType = "Data" -> 22) - (IF confirmed THEN 2 ELSE 0)

\* The payload the fragment was built from (DataBlocks never writes df.Data).
Payload0 == df.Data

\* DataBlocks ran, and CombineDataBlocks ran on the blocks as it returned them.
CombinedUntampered == mode = "fragment" /\ cres.kind # "none" /\ blocks = sent

\* CombineDataBlocks ran on blocks of which one byte was changed.
CombinedTampered == mode = "fragment" /\ cres.kind # "none" /\ blocks # sent

\* The first n bytes of the returned fragment.
Returned(n) == SubSeq(cres.f[1].Data, 1, n)

\* The blocks' payloads, one after the other.
RECURSIVE Flat(_, _, _)
Flat(bs, lo, hi) ==
  IF lo > hi THEN <<>>
  ELSE IF lo = hi THEN bs[lo].Data
  ELSE Flat(bs, lo, (lo + hi) \div 2) \o Flat(bs, ((lo + hi) \div 2) + 1, hi)

\* C1 (the claim as stated): for a payload of at most 1500 bytes, combining
\* the blocks DataBlocks returned succeeds and returns a fragment whose bytes
\* equal the payload and whose Stored equals the payload's length.
C1_RoundTrip ==
  (CombinedUntampered /\ calls = 1 /\ Len(Payload0) <= MaxPacketFragmentSize)
    => /\ cres.kind = "ok"
       /\ cres.f[1].Stored = Len(Payload0)
       /\ Returned(cres.f[1].Stored) = Payload0

\* C1 at the top of its range, and no more of it than any reading of the
\* claim asks: for a payload of exactly 1500 bytes, combining the blocks
\* DataBlocks returned succeeds and returns a fragment that holds at least
\* 1500 bytes and whose first 1500 bytes equal the payload.
C1_RoundTripAtMaxSize ==
  (CombinedUntampered /\ calls = 1 /\ Len(Payload0) = MaxPacketFragmentSize)
    => /\ cres.kind = "ok"
       /\ cres.f[1].Stored >= Len(Payload0)
       /\ Returned(Len(Payload0)) = Payload0

\* C2: after one payload byte of one block changed, CombineDataBlocks fails
\* with the fragment CRC error and returns no fragment.
C2_TamperDetected ==
  CombinedTampered => (cres.kind = "crc_error" /\ cres.f = <<>>)

\* Every block of the sequence was copied into the reassembly buffer: no
\* block's bounds check at data.go:193 or data.go:198 turned it away.
NoBlockDropped ==
  /\ (Len(sent) - 1) * TableCapacity(dtype, conf) < MaxPacketFragmentSize
  /\ (Len(sent) * TableCapacity(dtype, conf)) - 4 < MaxPacketFragmentSize

\* Where no block is turned away, a changed byte is always detected.
TamperDetectedWhenKept ==
  (CombinedTampered /\ NoBlockDropped) => (cres.kind = "crc_error" /\ cres.f = <<>>)

\* Where no block is turned away, the round trip returns the payload, padded
\* with zeros and the trailer to a whole number of blocks.
RoundTripWhenKept ==
  (CombinedUntampered /\ calls = 1 /\ NoBlockDropped)
    => /\ cres.kind = "ok"
       /\ cres.f[1].Stored = Len(sent) * TableCapacity(dtype, conf)
       /\ Returned(Len(Payload0)) = Payload0

\* C3: DataBlocks returns exactly Needed blocks, each with len(Data) = Length
\* = the table's capacity, Needed * capacity - Stored >= 4, and Needed is the
\* smallest count with that room.
C3_BlockSizing ==
  (mode = "fragment" /\ calls >= 1)
    => LET cap == TableCapacity(dtype, conf)
       IN /\ ~fault
          /\ Len(sent) = df.Needed
          /\ \A i \in 1..Len(sent) :
               Len(sent[i].Data) = cap /\ sent[i].Length = cap
          /\ (df.Needed * cap) - df.Stored >= 4
          /\ ((df.Needed - 1) * cap) - df.Stored < 4
          /\ df.Needed >= 1

\* C3's case: the payload fills its last block to within 4 bytes, so one
\* more block is allocated.
C3_Witness ==
  /\ mode = "fragment" /\ calls >= 1 /\ df.Stored > 0
  /\ (df.Needed - 1) * TableCapacity(dtype, conf) >= df.Stored

\* C4 (the claim as stated): an empty payload yields exactly one block, and
\* combining it succeeds with a zero-length fragment (Stored = 0).
C4_EmptyStoredZero ==
  /\ (mode = "fragment" /\ calls >= 1 /\ Len(Payload0) = 0) => Len(sent) = 1
  /\ (CombinedUntampered /\ Len(Payload0) = 0)
       => (cres.kind = "ok" /\ cres.f[1].Stored = 0)

\* C4 (amended): an empty payload yields exactly one block, and combining it
\* succeeds with a fragment whose Stored is the block capacity and whose
\* bytes are that block's: zero padding, then the 4-byte CRC-32 trailer.
C4_EmptyOneBlock ==
  /\ (mode = "fragment" /\ calls >= 1 /\ Len(Payload0) = 0) => Len(sent) = 1
  /\ (CombinedUntampered /\ Len(Payload0) = 0)
       => /\ cres.kind = "ok"
          /\ cres.f[1].Stored = TableCapacity(dtype, conf)
          /\ Returned(TableCapacity(dtype, conf)) = sent[1].Data
          /\ Returned(TableCapacity(dtype, conf) - 4)
               = Zeros(TableCapacity(dtype, conf) - 4)

\* C4's case: the single block of an empty payload was combined.
C4_Witness ==
  CombinedUntampered /\ Len(Payload0) = 0 /\ Len(sent) = 1 /\ cres.kind = "ok"

\* The payload bytes the blocks carry: everything but the 4-byte trailer.
Carried == SubSeq(Flat(sent, 1, Len(sent)), 1, (Len(sent) * TableCapacity(dtype, conf)) - 4)

\* C5: a payload of exactly 1500 bytes is accepted with Stored = 1500 and no
\* slice out of range; a longer one gets Stored = 1500, and its blocks and
\* CRC-32 are those of its first 1500 bytes: the blocks carry those bytes,
\* zero padding and the trailer, and nothing of the bytes past 1500.
C5_SizeBoundary ==
  (mode = "fragment" /\ calls = 1 /\ cres.kind = "none" /\ blocks = sent
     /\ Len(Payload0) >= MaxPacketFragmentSize)
    => /\ ~fault
       /\ df.Stored = MaxPacketFragmentSize
       /\ Carried = SubSeq(Payload0, 1, MaxPacketFragmentSize)
                      \o Zeros(Len(Carried) - MaxPacketFragmentSize)
       /\ LET head == DataBlocks(DataFragment(SubSeq(Payload0, 1, MaxPacketFragmentSize),
                                              0, 0, <<0, 0>>), dtype, conf)
          IN sent = head.blocks /\ df.CRC = head.df.CRC

\* C5's case: DataBlocks ran on a payload of more than 1500 bytes whose byte
\* past the limit is not zero.
C5_Witness ==
  /\ mode = "fragment" /\ calls = 1 /\ ~fault
  /\ Len(Payload0) > MaxPacketFragmentSize
  /\ Payload0[MaxPacketFragmentSize + 1] # 0
  /\ df.Stored = MaxPacketFragmentSize

\* C10: a second DataBlocks call on the same DataFragment returns the same
\* blocks as the first and leaves Stored, Needed and CRC as the first did.
C10_Repeatable ==
  (mode = "fragment" /\ calls = 2)
    => /\ sent = prev.blocks
       /\ df.Stored = prev.df.Stored
       /\ df.Needed = prev.df.Needed
       /\ df.CRC = prev.df.CRC

\* The tabulated crc32 agrees with the bit-serial recurrence on the CRCs the
\* behaviours reach.
TablesAgree32 ==
  \A b \in {0, 1, 128, 170, 255} :
    /\ crc32(df.CRC, b) = crc32Serial(df.CRC, b)
    /\ crc32(cres.crc, b) = crc32Serial(cres.crc, b)

----------------------------------------------------------------------------
(* Properties of the block codec, checked under SpecCodec.                 *)

\* ParseDataBlock returned (it did not abort).
Parsed == mode = "codec" /\ pres.kind \in {"ok", "crc_error"}

\* The 9-bit checksum the wire bytes store, and the one recomputed over the
\* serial and payload they carry.
WireStored == (wire.arr[1] % 2) * 256 + wire.arr[2]
WireComputed ==
  calculateCRC9(wire.arr[1] \div 2,
                SubSeq(wire.arr, 3, TableCapacity(dtype, conf) + 2), dtype)

\* The buffer is shorter than the layout of (dtype, conf): table size bytes,
\* which is 2 + payload length when confirmed.
ShortBuffer ==
  wire.len < (CASE dtype = "Rate12Data" -> 12 [] dtype = "Rate34Data" -> 18 [] dtype = "Data" -> 22)

\* C6: ParseDataBlock on a buffer shorter than the declared layout returns a
\* structural error to the caller; it neither aborts nor returns a block.
C6_ShortBufferError ==
  (mode = "codec" /\ wire.st = "short" /\ ShortBuffer /\ pres.kind # "none")
    => pres.kind = "structural_error"

\* C7 (the claim as stated): a confirmed block fails with the checksum error
\* exactly when the recomputed CRC-9 differs from the stored one, and then the
\* decoded block is still there, structurally valid, with OK = FALSE; an
\* unconfirmed block is never checked and always has OK = TRUE.
C7_ErrorKeepsBlock ==
  Parsed
    => /\ conf => /\ (pres.kind = "crc_error") <=> (WireComputed # WireStored)
                  /\ pres.kind = "crc_error"
                       => /\ pres.db # <<>>
                          /\ pres.db[1].OK = FALSE
                          /\ Len(pres.db[1].Data) = pres.db[1].Length
       /\ ~conf => (pres.kind = "ok" /\ pres.db[1].OK = TRUE)

\* C7 (amended): a confirmed block fails with the checksum error exactly when
\* the recomputed CRC-9 differs from the stored one, and then no block is
\* returned (nil); a block that is returned has OK = TRUE; an unconfirmed
\* block is never checked and always has OK = TRUE.
C7_ErrorReturnsNil ==
  Parsed
    => /\ conf => /\ (pres.kind = "crc_error") <=> (WireComputed # WireStored)
                  /\ pres.kind = "crc_error" => pres.db = <<>>
                  /\ pres.kind = "ok" => (pres.db # <<>> /\ pres.db[1].OK = TRUE)
       /\ ~conf => (pres.kind = "ok" /\ pres.db # <<>> /\ pres.db[1].OK = TRUE)

\* C7's case: a confirmed block whose wire bytes were damaged failed its
\* checksum.
C7_Witness ==
  mode = "codec" /\ conf /\ wire.st = "corrupted" /\ pres.kind = "crc_error"

\* C8: parsing what Bytes wrote succeeds and returns the same payload and
\* Length, OK = TRUE and, when confirmed, the same Serial and the CRC that
\* Bytes wrote.
C8_CodecRoundTrip ==
  (mode = "codec" /\ wire.st = "encoded" /\ pres.kind # "none")
    => /\ pres.kind = "ok"
       /\ pres.db # <<>>
       /\ pres.db[1].Data = blk.Data
       /\ pres.db[1].Length = blk.Length
       /\ pres.db[1].OK = TRUE
       /\ conf => /\ pres.db[1].Serial = blk.Serial
                  /\ pres.db[1].CRC = blk.CRC
                  /\ pres.db[1].CRC = WireStored

\* C8's case: a confirmed block with the highest serial and a payload that is
\* not all zero went through Bytes and ParseDataBlock.
C8_Witness ==
  /\ mode = "codec" /\ wire.st = "encoded" /\ pres.kind = "ok" /\ conf
  /\ blk.Serial = 127 /\ blk.Data[1] # 0

\* The tabulated crc9 agrees with the bit-serial recurrence on the CRCs the
\* behaviours reach.
TablesAgree9 ==
  \A b \in {0, 1, 128, 170, 255} :
    /\ crc9Byte(pres.crc, b) = crc9(pres.crc, b, 8)
    /\ crc9Byte(blk.CRC, b) = crc9(blk.CRC, b, 8)

====
